---------------------------- MODULE Spec2Model ----------------------------
(***************************************************************************)
(* Model of the RGMP architecture port of NuttX (arch/rgmp/src/nuttx.c):   *)
(* the scheduler-interaction layer (up_block_task, up_unblock_task,        *)
(* up_reprioritize_rtr, up_release_pending, _exit), the context-switch     *)
(* wrapper up_switchcontext, and signal-delivery plumbing                  *)
(* (up_schedule_sigaction, up_sigdeliver).                                 *)
(*                                                                         *)
(* The scheduler queues (sched_addreadytorun, sched_removereadytorun,      *)
(* sched_addblocked, sched_removeblocked, sched_mergepending, task_exit),  *)
(* the task-state enumeration and the interrupt entry/exit shim are not    *)
(* part of the port; they are modelled from the specification.             *)
(***************************************************************************)
EXTENDS Integers, Sequences, FiniteSets, TLC

(***************************************************************************)
(* Bounds of the model                                                     *)
(***************************************************************************)
NumTasks == 3        \* TCBs 1..NumTasks; TCB 1 is the idle task (pid 0)
MaxPrio  == 2        \* scaled-down SCHED_PRIORITY_MAX
MaxNest  == 2        \* deepest interrupt nesting explored
MaxLock  == 1        \* cap of a TCB's preemption lock count
NumHandlers == 2     \* distinct sig_deliver_t values 1..NumHandlers
MaxPush  == 2        \* cap of the synthetic frames pushed on one TCB
MaxFrames == 1       \* cap of the nested calls a task is suspended in
NS_PER_SEC == 4      \* scaled-down nanoseconds per second (1000000000UL)
TscBits  == 4        \* scaled-down width of the 64-bit timestamp counter
MaxTsc   == 5        \* last value of the timestamp counter explored
MaxSec   == 1        \* largest tv_sec passed to the timer
MaxStack == 8        \* largest stack and frame size, in bytes
MaxStackOps == 3     \* cap of the stack-manager calls in a run

(***************************************************************************)
(* Program constants                                                       *)
(***************************************************************************)
NULL == 0
IdleTcb == 1         \* g_pidhash[PIDHASH(0)].tcb

TSTATE_TASK_INVALID    == 0
TSTATE_TASK_READYTORUN == 1
TSTATE_TASK_RUNNING    == 2
TSTATE_TASK_INACTIVE   == 3
TSTATE_WAIT_SEM        == 4
NUM_TASK_STATES        == 5

FIRST_READY_TO_RUN_STATE == TSTATE_TASK_READYTORUN
LAST_READY_TO_RUN_STATE  == TSTATE_TASK_RUNNING
FIRST_BLOCKED_STATE      == TSTATE_TASK_INACTIVE
LAST_BLOCKED_STATE       == NUM_TASK_STATES - 1

SCHED_PRIORITY_MIN == 1
SCHED_PRIORITY_MAX == MaxPrio
UINT8_MIN == 0
UINT8_MAX == MaxPrio + 1     \* scaled-down range of the uint8_t argument

Tcbs       == 1..NumTasks
UserTcbs   == Tcbs \ {IdleTcb}
Priorities == UINT8_MIN..UINT8_MAX
Handlers   == 1..NumHandlers

ReadyRange(s)   == s >= FIRST_READY_TO_RUN_STATE /\ s <= LAST_READY_TO_RUN_STATE
BlockedRange(s) == s >= FIRST_BLOCKED_STATE /\ s <= LAST_BLOCKED_STATE

VARIABLES
  current_task,      \* struct tcb_s *current_task
  nest_irq,          \* interrupt nesting counter
  g_readytorun,      \* ready-to-run list, head first
  g_pendingtasks,    \* pending list, head first
  g_blocked,         \* TCBs on the blocked lists (the list is task_state[t])
  task_state,        \* tcb->task_state
  sched_priority,    \* tcb->sched_priority
  lockcount,         \* tcb->lockcount (preemption disabled while > 0)
  exited,            \* TCBs destroyed by task_exit
  panicked,          \* panic() was called: the system is halted
  sigdeliver,        \* tcb->xcp.sigdeliver (NULL: no handler pending)
  xcp_pushed,        \* synthetic frames pushed on tcb->xcp and not popped
  tpc,               \* per task: the calls it is suspended in, innermost first
  last               \* trace of the last operation (calls it made)

\* Tickless time source (arch/x86_64/src/intel64/intel64_tickless.c)
VARIABLES
  tcfg,              \* configuration: tsc_freq and CONFIG_SCHED_TICKLESS_ALARM
  tmr,               \* the timer state block (g_start_tsc, g_goal_time, ...)
  hw,                \* CPU and local APIC: tsc, deadline MSR, LVTT mask, IF
  tcall,             \* timer calls and interrupt handlers in progress,
                     \* innermost first
  tobs,              \* what has been observed of the timer since its last start
  tlast              \* trace of the last timer step

tvars == <<tcfg, tmr, hw, tcall, tobs, tlast>>

VARIABLES
  stk,               \* the TCB's stack fields (stack_alloc_ptr, adj_stack_size,
                     \* adj_stack_ptr) and the size of the buffer behind them
  mm,                \* the allocators: build configuration, buffers handed
                     \* out, calls of free
  klast              \* trace of the last stack-manager call

kvars == <<stk, mm, klast>>

sched == <<g_readytorun, g_pendingtasks, g_blocked, task_state,
           sched_priority>>
sigs == <<sigdeliver, xcp_pushed, tpc>>
vars == <<current_task, nest_irq, g_readytorun, g_pendingtasks, g_blocked,
          task_state, sched_priority, lockcount, exited, panicked,
          sigdeliver, xcp_pushed, tpc, last,
          tcfg, tmr, hw, tcall, tobs, tlast,
          stk, mm, klast>>

(***************************************************************************)
(* Scheduler queues.  Q is the record of the queue state that the          *)
(* scheduler functions read and write.                                     *)
(***************************************************************************)
Q == [rtr |-> g_readytorun, pend |-> g_pendingtasks, blk |-> g_blocked,
      st |-> task_state, prio |-> sched_priority]

InSeq(x, s) == \E i \in 1..Len(s) : s[i] = x
SeqSet(s) == {s[i] : i \in 1..Len(s)}
RemoveFrom(s, x) == SelectSeq(s, LAMBDA e : e # x)

this_task(q) == Head(q.rtr)

\* Insert by priority, after every entry of equal or higher priority.
sched_addprioritized(tcb, list, prio) ==
  LET k == Cardinality({i \in 1..Len(list) : prio[list[i]] >= prio[tcb]})
  IN [list |-> SubSeq(list, 1, k) \o <<tcb>> \o SubSeq(list, k + 1, Len(list)),
      head |-> (k = 0)]

sched_removereadytorun(q, tcb) ==
  LET doswitch == (Head(q.rtr) = tcb)
      rest == RemoveFrom(q.rtr, tcb)
  IN [q |-> [q EXCEPT !.rtr = rest,
                      !.st = IF doswitch /\ rest # <<>>
                             THEN [q.st EXCEPT ![Head(rest)] = TSTATE_TASK_RUNNING]
                             ELSE q.st],
      ret |-> doswitch]

sched_addblocked(q, tcb, state) ==
  [q EXCEPT !.blk = q.blk \cup {tcb}, !.st[tcb] = state]

\* Mutant: the TCB is left on its blocked list.
sched_removeblocked_keep(q, tcb) == q

sched_removeblocked(q, tcb) ==
  [q EXCEPT !.blk = q.blk \ {tcb}]

sched_addreadytorun(q, btcb) ==
  LET rtcb == Head(q.rtr)
      ins == sched_addprioritized(btcb, q.rtr, q.prio)
  IN IF lockcount[rtcb] > 0 /\ q.prio[rtcb] < q.prio[btcb]
     THEN [q |-> [q EXCEPT !.pend = sched_addprioritized(btcb, q.pend, q.prio).list,
                           !.st[btcb] = TSTATE_TASK_READYTORUN],
           ret |-> FALSE]
     ELSE IF ins.head
     THEN [q |-> [q EXCEPT !.rtr = ins.list,
                           !.st = [q.st EXCEPT ![rtcb] = TSTATE_TASK_READYTORUN,
                                               ![btcb] = TSTATE_TASK_RUNNING]],
           ret |-> TRUE]
     ELSE [q |-> [q EXCEPT !.rtr = ins.list,
                           !.st[btcb] = TSTATE_TASK_READYTORUN],
           ret |-> FALSE]

RECURSIVE MergeLoop(_, _, _)
MergeLoop(q, pend, ret) ==
  IF pend = <<>> THEN [q |-> [q EXCEPT !.pend = <<>>], ret |-> ret]
  ELSE LET ptcb == Head(pend)
           ins == sched_addprioritized(ptcb, q.rtr, q.prio)
           q1 == IF ins.head
                 THEN [q EXCEPT !.rtr = ins.list,
                                !.st = [q.st EXCEPT ![Head(q.rtr)] = TSTATE_TASK_READYTORUN,
                                                    ![ptcb] = TSTATE_TASK_RUNNING]]
                 ELSE [q EXCEPT !.rtr = ins.list,
                                !.st[ptcb] = TSTATE_TASK_READYTORUN]
       IN MergeLoop(q1, Tail(pend), ret \/ ins.head)

sched_mergepending(q) == MergeLoop(q, q.pend, FALSE)


(***************************************************************************)
(* task_exit: destroys the TCB at the head of the ready-to-run list.       *)
(***************************************************************************)
task_exit(q) == sched_removereadytorun(q, Head(q.rtr)).q

(***************************************************************************)
(* up_interrupt_context and up_switchcontext                               *)
(***************************************************************************)
\* Mutant: the nesting counter is ignored.
up_interrupt_context_never == FALSE

up_interrupt_context == nest_irq # 0

NoSwitch == [entered |-> FALSE, from |-> NULL, to |-> NULL,
             panic |-> FALSE, swapped |-> FALSE, saved |-> NULL]

\* Mutant: the interrupt-context test of lines 83-85 is missing.
up_switchcontext_nocheck(ctcb, ntcb) ==
  IF ctcb = ntcb
  THEN [entered |-> TRUE, from |-> ctcb, to |-> ntcb,
        panic |-> FALSE, swapped |-> FALSE, saved |-> NULL]
  ELSE [entered |-> TRUE, from |-> ctcb, to |-> ntcb,
        panic |-> FALSE, swapped |-> TRUE, saved |-> ctcb]

\* The result records what the call did: panic, or current_task = ntcb and
\* rgmp_context_switch(ctcb ? &ctcb->xcp.ctx : NULL, &ntcb->xcp.ctx), which
\* saves the running context into ctcb's slot when ctcb is not NULL.
up_switchcontext(ctcb, ntcb) ==
  IF ctcb = ntcb
  THEN [entered |-> TRUE, from |-> ctcb, to |-> ntcb,
        panic |-> FALSE, swapped |-> FALSE, saved |-> NULL]
  ELSE IF up_interrupt_context
  THEN [entered |-> TRUE, from |-> ctcb, to |-> ntcb,
        panic |-> TRUE, swapped |-> FALSE, saved |-> NULL]
  ELSE [entered |-> TRUE, from |-> ctcb, to |-> ntcb,
        panic |-> FALSE, swapped |-> TRUE, saved |-> ctcb]

(***************************************************************************)
(* Trace record of one scheduler-interaction call                          *)
(***************************************************************************)
\* The call completes a round trip of section 4.4: an unblock of the TCB the
\* preceding call blocked, both at task level, or a second reprioritize of
\* the same TCB to the same priority.
Paired(op, tcb, arg) ==
  /\ \/ /\ op = "unblock" /\ last.op = "block"
        /\ last.irq = 0 /\ nest_irq = 0
        /\ BlockedRange(last.arg)
     \/ /\ op = "reprioritize" /\ last.op = "reprioritize"
        /\ last.arg = arg
  /\ last.tcb = tcb
  /\ last.valid /\ ~last.panic

Trace(op, tcb, arg, valid, rem, add, need, susp, resm, merged, sw, panic, q) ==
  [op |-> op, tcb |-> tcb, arg |-> arg, irq |-> nest_irq,
   pair |-> Paired(op, tcb, arg),
   cur0 |-> current_task, head0 |-> Head(g_readytorun),
   valid |-> valid, rem |-> rem, add |-> add, need |-> need,
   suspended |-> susp, resumed |-> resm, merged |-> merged, sw |-> sw,
   panic |-> panic,
   cur1 |-> IF sw.swapped THEN sw.to ELSE current_task,
   head1 |-> IF q.rtr = <<>> THEN NULL ELSE Head(q.rtr)]

NoTrace == [op |-> "none"]

Commit(q, t) ==
  /\ g_readytorun' = q.rtr
  /\ g_pendingtasks' = q.pend
  /\ g_blocked' = q.blk
  /\ task_state' = q.st
  /\ sched_priority' = q.prio
  /\ current_task' = t.cur1
  /\ panicked' = t.panic
  /\ last' = t

\* A TCB the scheduler may pass to block/reprioritize: a live task other
\* than the idle task that is not waiting on the pending list.
Callable(tcb) == /\ tcb \in UserTcbs \ exited
                 /\ ~InSeq(tcb, g_pendingtasks)

(***************************************************************************)
(* up_block_task                                                           *)
(***************************************************************************)
BlockTargets == {TSTATE_TASK_INVALID, TSTATE_TASK_INACTIVE, TSTATE_WAIT_SEM,
                 NUM_TASK_STATES}

\* asserts: the build checks sched_addblocked's DEBUGASSERT on the state.
\* Mutant: up_switchcontext is called with its arguments exchanged.
up_block_task_swapargs(tcb, state, asserts) ==
  IF task_state[tcb] < FIRST_READY_TO_RUN_STATE \/
     task_state[tcb] > LAST_READY_TO_RUN_STATE
  THEN Commit(Q, Trace("block", tcb, state, FALSE, FALSE, FALSE, FALSE,
                       NULL, NULL, FALSE, NoSwitch, FALSE, Q))
  ELSE
    LET rtcb == current_task
        r1 == sched_removereadytorun(Q, tcb)
        switch_needed == r1.ret
        q2 == sched_addblocked(r1.q, tcb, state)
    IN IF asserts /\ ~BlockedRange(state)
       THEN Commit(r1.q, Trace("block", tcb, state, TRUE, r1.ret, FALSE,
                               switch_needed, NULL, NULL, FALSE, NoSwitch,
                               TRUE, r1.q))
       ELSE IF ~switch_needed
       THEN Commit(q2, Trace("block", tcb, state, TRUE, r1.ret, FALSE, FALSE,
                             NULL, NULL, FALSE, NoSwitch, FALSE, q2))
       ELSE IF up_interrupt_context
       THEN Commit(q2, Trace("block", tcb, state, TRUE, r1.ret, FALSE, TRUE,
                             rtcb, NULL, FALSE, NoSwitch, TRUE, q2))
       ELSE
         LET merge == (q2.pend # <<>>)
             q3 == IF merge THEN sched_mergepending(q2).q ELSE q2
             nexttcb == this_task(q3)
             sw == up_switchcontext(nexttcb, rtcb)
         IN Commit(q3, Trace("block", tcb, state, TRUE, r1.ret, FALSE, TRUE,
                             rtcb, nexttcb, merge, sw, sw.panic, q3))

up_block_task(tcb, state, asserts) ==
  IF task_state[tcb] < FIRST_READY_TO_RUN_STATE \/
     task_state[tcb] > LAST_READY_TO_RUN_STATE
  THEN Commit(Q, Trace("block", tcb, state, FALSE, FALSE, FALSE, FALSE,
                       NULL, NULL, FALSE, NoSwitch, FALSE, Q))
  ELSE
    LET rtcb == current_task
        r1 == sched_removereadytorun(Q, tcb)
        switch_needed == r1.ret
        q2 == sched_addblocked(r1.q, tcb, state)
    IN IF asserts /\ ~BlockedRange(state)
       THEN Commit(r1.q, Trace("block", tcb, state, TRUE, r1.ret, FALSE,
                               switch_needed, NULL, NULL, FALSE, NoSwitch,
                               TRUE, r1.q))
       ELSE IF ~switch_needed
       THEN Commit(q2, Trace("block", tcb, state, TRUE, r1.ret, FALSE, FALSE,
                             NULL, NULL, FALSE, NoSwitch, FALSE, q2))
       ELSE IF up_interrupt_context
       THEN Commit(q2, Trace("block", tcb, state, TRUE, r1.ret, FALSE, TRUE,
                             rtcb, NULL, FALSE, NoSwitch, TRUE, q2))
       ELSE
         LET merge == (q2.pend # <<>>)
             q3 == IF merge THEN sched_mergepending(q2).q ELSE q2
             nexttcb == this_task(q3)
             sw == up_switchcontext(rtcb, nexttcb)
         IN Commit(q3, Trace("block", tcb, state, TRUE, r1.ret, FALSE, TRUE,
                             rtcb, nexttcb, merge, sw, sw.panic, q3))

(***************************************************************************)
(* up_unblock_task                                                         *)
(***************************************************************************)
\* Mutant: the context switch after sched_addreadytorun is left out.
up_unblock_task_noswitch(tcb) ==
  IF task_state[tcb] < FIRST_BLOCKED_STATE \/
     task_state[tcb] > LAST_BLOCKED_STATE
  THEN Commit(Q, Trace("unblock", tcb, NULL, FALSE, FALSE, FALSE, FALSE,
                       NULL, NULL, FALSE, NoSwitch, FALSE, Q))
  ELSE
    LET rtcb == current_task
        q1 == sched_removeblocked(Q, tcb)
        r2 == sched_addreadytorun(q1, tcb)
    IN IF FALSE
       THEN LET nexttcb == this_task(r2.q)
                sw == up_switchcontext(rtcb, nexttcb)
            IN Commit(r2.q, Trace("unblock", tcb, NULL, TRUE, FALSE, r2.ret,
                                  TRUE, rtcb, nexttcb, FALSE, sw, sw.panic,
                                  r2.q))
       ELSE Commit(r2.q, Trace("unblock", tcb, NULL, TRUE, FALSE, r2.ret,
                               r2.ret, NULL, NULL, FALSE, NoSwitch, FALSE,
                               r2.q))

up_unblock_task(tcb) ==
  IF task_state[tcb] < FIRST_BLOCKED_STATE \/
     task_state[tcb] > LAST_BLOCKED_STATE
  THEN Commit(Q, Trace("unblock", tcb, NULL, FALSE, FALSE, FALSE, FALSE,
                       NULL, NULL, FALSE, NoSwitch, FALSE, Q))
  ELSE
    LET rtcb == current_task
        q1 == sched_removeblocked(Q, tcb)
        r2 == sched_addreadytorun(q1, tcb)
    IN IF r2.ret /\ ~up_interrupt_context
       THEN LET nexttcb == this_task(r2.q)
                sw == up_switchcontext(rtcb, nexttcb)
            IN Commit(r2.q, Trace("unblock", tcb, NULL, TRUE, FALSE, r2.ret,
                                  TRUE, rtcb, nexttcb, FALSE, sw, sw.panic,
                                  r2.q))
       ELSE Commit(r2.q, Trace("unblock", tcb, NULL, TRUE, FALSE, r2.ret,
                               r2.ret, NULL, NULL, FALSE, NoSwitch, FALSE,
                               r2.q))

(***************************************************************************)
(* up_release_pending                                                      *)
(***************************************************************************)
\* Mutant: the context switch after sched_mergepending is left out.
up_release_pending_noswitch ==
  LET rtcb == current_task
      r == sched_mergepending(Q)
  IN IF FALSE
     THEN LET nexttcb == this_task(r.q)
              sw == up_switchcontext(rtcb, nexttcb)
          IN Commit(r.q, Trace("release", NULL, NULL, TRUE, FALSE, r.ret, TRUE,
                               rtcb, nexttcb, TRUE, sw, sw.panic, r.q))
     ELSE Commit(r.q, Trace("release", NULL, NULL, TRUE, FALSE, FALSE, FALSE,
                            NULL, NULL, TRUE, NoSwitch, FALSE, r.q))

up_release_pending ==
  LET rtcb == current_task
      r == sched_mergepending(Q)
  IN IF r.ret
     THEN LET nexttcb == this_task(r.q)
              sw == up_switchcontext(rtcb, nexttcb)
          IN Commit(r.q, Trace("release", NULL, NULL, TRUE, FALSE, r.ret, TRUE,
                               rtcb, nexttcb, TRUE, sw, sw.panic, r.q))
     ELSE Commit(r.q, Trace("release", NULL, NULL, TRUE, FALSE, FALSE, FALSE,
                            NULL, NULL, TRUE, NoSwitch, FALSE, r.q))

\* Mutant: the new priority is not stored in the TCB.
up_reprioritize_rtr_keepprio(tcb, priority) ==
  IF \/ task_state[tcb] < FIRST_READY_TO_RUN_STATE
     \/ task_state[tcb] > LAST_READY_TO_RUN_STATE
     \/ (SCHED_PRIORITY_MIN > UINT8_MIN /\ priority < SCHED_PRIORITY_MIN)
     \/ (SCHED_PRIORITY_MAX < UINT8_MAX /\ priority > SCHED_PRIORITY_MAX)
  THEN Commit(Q, Trace("reprioritize", tcb, priority, FALSE, FALSE, FALSE,
                       FALSE, NULL, NULL, FALSE, NoSwitch, FALSE, Q))
  ELSE
    LET rtcb == current_task
        r1 == sched_removereadytorun(Q, tcb)
        q2 == r1.q
        r3 == sched_addreadytorun(q2, tcb)
        switch_needed == (r1.ret # r3.ret)
    IN IF switch_needed /\ ~up_interrupt_context
       THEN LET merge == (r3.q.pend # <<>>)
                q4 == IF merge THEN sched_mergepending(r3.q).q ELSE r3.q
                nexttcb == this_task(q4)
                sw == up_switchcontext(rtcb, nexttcb)
            IN Commit(q4, Trace("reprioritize", tcb, priority, TRUE, r1.ret,
                                r3.ret, TRUE, rtcb, nexttcb, merge, sw,
                                sw.panic, q4))
       ELSE Commit(r3.q, Trace("reprioritize", tcb, priority, TRUE, r1.ret,
                               r3.ret, switch_needed, NULL, NULL, FALSE,
                               NoSwitch, FALSE, r3.q))

(***************************************************************************)
(* up_reprioritize_rtr                                                     *)
(***************************************************************************)
\* Mutant: the two results are combined with OR instead of XOR.
up_reprioritize_rtr_or(tcb, priority) ==
  IF \/ task_state[tcb] < FIRST_READY_TO_RUN_STATE
     \/ task_state[tcb] > LAST_READY_TO_RUN_STATE
     \/ (SCHED_PRIORITY_MIN > UINT8_MIN /\ priority < SCHED_PRIORITY_MIN)
     \/ (SCHED_PRIORITY_MAX < UINT8_MAX /\ priority > SCHED_PRIORITY_MAX)
  THEN Commit(Q, Trace("reprioritize", tcb, priority, FALSE, FALSE, FALSE,
                       FALSE, NULL, NULL, FALSE, NoSwitch, FALSE, Q))
  ELSE
    LET rtcb == current_task
        r1 == sched_removereadytorun(Q, tcb)
        q2 == [r1.q EXCEPT !.prio[tcb] = priority]
        r3 == sched_addreadytorun(q2, tcb)
        switch_needed == (r1.ret \/ r3.ret)
    IN IF switch_needed /\ ~up_interrupt_context
       THEN LET merge == (r3.q.pend # <<>>)
                q4 == IF merge THEN sched_mergepending(r3.q).q ELSE r3.q
                nexttcb == this_task(q4)
                sw == up_switchcontext(rtcb, nexttcb)
            IN Commit(q4, Trace("reprioritize", tcb, priority, TRUE, r1.ret,
                                r3.ret, TRUE, rtcb, nexttcb, merge, sw,
                                sw.panic, q4))
       ELSE Commit(r3.q, Trace("reprioritize", tcb, priority, TRUE, r1.ret,
                               r3.ret, switch_needed, NULL, NULL, FALSE,
                               NoSwitch, FALSE, r3.q))

up_reprioritize_rtr(tcb, priority) ==
  IF \/ task_state[tcb] < FIRST_READY_TO_RUN_STATE
     \/ task_state[tcb] > LAST_READY_TO_RUN_STATE
     \/ (SCHED_PRIORITY_MIN > UINT8_MIN /\ priority < SCHED_PRIORITY_MIN)
     \/ (SCHED_PRIORITY_MAX < UINT8_MAX /\ priority > SCHED_PRIORITY_MAX)
  THEN Commit(Q, Trace("reprioritize", tcb, priority, FALSE, FALSE, FALSE,
                       FALSE, NULL, NULL, FALSE, NoSwitch, FALSE, Q))
  ELSE
    LET rtcb == current_task
        r1 == sched_removereadytorun(Q, tcb)
        q2 == [r1.q EXCEPT !.prio[tcb] = priority]
        r3 == sched_addreadytorun(q2, tcb)
        switch_needed == (r1.ret # r3.ret)
    IN IF switch_needed /\ ~up_interrupt_context
       THEN LET merge == (r3.q.pend # <<>>)
                q4 == IF merge THEN sched_mergepending(r3.q).q ELSE r3.q
                nexttcb == this_task(q4)
                sw == up_switchcontext(rtcb, nexttcb)
            IN Commit(q4, Trace("reprioritize", tcb, priority, TRUE, r1.ret,
                                r3.ret, TRUE, rtcb, nexttcb, merge, sw,
                                sw.panic, q4))
       ELSE Commit(r3.q, Trace("reprioritize", tcb, priority, TRUE, r1.ret,
                               r3.ret, switch_needed, NULL, NULL, FALSE,
                               NoSwitch, FALSE, r3.q))

(***************************************************************************)
(* _exit                                                                   *)
(***************************************************************************)
\* Mutant: the exiting task is passed as the context to save.
up_exit_save ==
  LET dtcb == Head(g_readytorun)
      q1 == task_exit(Q)
      tcb == this_task(q1)
      sw == up_switchcontext(dtcb, tcb)
  IN /\ Commit(q1, Trace("exit", dtcb, NULL, TRUE, TRUE, FALSE, TRUE,
                         NULL, NULL, FALSE, sw, sw.panic, q1))
     /\ exited' = exited \cup {dtcb}
     /\ lockcount' = [lockcount EXCEPT ![dtcb] = 0]


up_exit ==
  LET dtcb == Head(g_readytorun)
      q1 == task_exit(Q)
      tcb == this_task(q1)
      sw == up_switchcontext(NULL, tcb)
  IN /\ Commit(q1, Trace("exit", dtcb, NULL, TRUE, TRUE, FALSE, TRUE,
                         NULL, NULL, FALSE, sw, sw.panic, q1))
     /\ exited' = exited \cup {dtcb}
     /\ lockcount' = [lockcount EXCEPT ![dtcb] = 0]


(***************************************************************************)
(* up_schedule_sigaction.  The test of tcb->xcp.sigdeliver is made before  *)
(* local_irq_save; SigBody is the part that runs with interrupts disabled. *)
(***************************************************************************)
Push(t, f) == [tpc EXCEPT ![t] = <<f>> \o @]
Pop(t) == [tpc EXCEPT ![t] = Tail(@)]
Top(t) == IF tpc[t] = <<>> THEN [pc |-> "run"] ELSE Head(tpc[t])

SigTrace(tcb, h, case, stored, pushed, ran) ==
  [op |-> "sigaction", tcb |-> tcb, h |-> h, irq |-> nest_irq,
   cur0 |-> current_task, pending0 |-> sigdeliver[tcb],
   pushed0 |-> xcp_pushed[tcb], case |-> case,
   stored |-> stored, pushed |-> pushed, ran |-> ran]

\* push_xcptcontext(&tcb->xcp): the task will resume in up_sigdeliver.
push_xcptcontext(tcb, frames) ==
  /\ xcp_pushed' = [xcp_pushed EXCEPT ![tcb] = @ + 1]
  /\ tpc' = [frames EXCEPT ![tcb] = <<[pc |-> "sigdeliver"]>> \o @]

\* SigBody with the self case storing the handler instead of calling it.
SigBody_selfstore(tcb, h, frames) ==
  IF tcb = current_task
  THEN /\ sigdeliver' = [sigdeliver EXCEPT ![tcb] = h]
       /\ last' = SigTrace(tcb, h, "self_irq", TRUE, FALSE, FALSE)
       /\ tpc' = frames
       /\ UNCHANGED xcp_pushed
  ELSE /\ sigdeliver' = [sigdeliver EXCEPT ![tcb] = h]
       /\ push_xcptcontext(tcb, frames)
       /\ last' = SigTrace(tcb, h, "other", TRUE, TRUE, FALSE)

\* Lines 665-693: from local_irq_save to local_irq_restore.
SigBody(tcb, h, frames) ==
  IF tcb = current_task
  THEN IF ~up_interrupt_context
       THEN /\ last' = SigTrace(tcb, h, "self", FALSE, FALSE, TRUE)
            /\ tpc' = frames
            /\ UNCHANGED <<sigdeliver, xcp_pushed>>
       ELSE /\ sigdeliver' = [sigdeliver EXCEPT ![tcb] = h]
            /\ last' = SigTrace(tcb, h, "self_irq", TRUE, FALSE, FALSE)
            /\ tpc' = frames
            /\ UNCHANGED xcp_pushed
  ELSE /\ sigdeliver' = [sigdeliver EXCEPT ![tcb] = h]
       /\ push_xcptcontext(tcb, frames)
       /\ last' = SigTrace(tcb, h, "other", TRUE, TRUE, FALSE)

\* The whole call, when nothing can interrupt it.
up_schedule_sigaction(tcb, h) ==
  IF sigdeliver[tcb] = NULL
  THEN SigBody(tcb, h, tpc)
  ELSE /\ last' = SigTrace(tcb, h, "refused", FALSE, FALSE, FALSE)
       /\ UNCHANGED sigs

\* Line 661 executed by the running task with interrupts enabled.
SigCheck(tcb, h) ==
  IF sigdeliver[tcb] = NULL
  THEN /\ tpc' = Push(current_task, [pc |-> "sig_body", tcb |-> tcb, h |-> h])
       /\ UNCHANGED <<sigdeliver, xcp_pushed, last>>
  ELSE /\ last' = SigTrace(tcb, h, "refused", FALSE, FALSE, FALSE)
       /\ UNCHANGED sigs

(***************************************************************************)
(* up_sigdeliver, in three steps: up to local_irq_enable, the handler      *)
(* call, and local_irq_disable with the return.                            *)
(***************************************************************************)
pop_xcptcontext(tcb) ==
  [xcp_pushed EXCEPT ![tcb] = IF @ > 0 THEN @ - 1 ELSE 0]

\* Mutant: the slot is not nulled before interrupts are enabled.
up_sigdeliver_entry_keep ==
  LET t == current_task IN
  /\ xcp_pushed' = pop_xcptcontext(t)
  /\ sigdeliver' = sigdeliver
  /\ tpc' = [tpc EXCEPT ![t] = <<[pc |-> "handler", h |-> sigdeliver[t]]>>
                                  \o Tail(@)]
  /\ last' = [op |-> "deliver", tcb |-> t, h |-> sigdeliver[t],
              pushed0 |-> xcp_pushed[t]]

up_sigdeliver_entry ==
  LET t == current_task IN
  /\ xcp_pushed' = pop_xcptcontext(t)
  /\ sigdeliver' = [sigdeliver EXCEPT ![t] = NULL]
  /\ tpc' = [tpc EXCEPT ![t] = <<[pc |-> "handler", h |-> sigdeliver[t]]>>
                                  \o Tail(@)]
  /\ last' = [op |-> "deliver", tcb |-> t, h |-> sigdeliver[t],
              pushed0 |-> xcp_pushed[t]]

up_sigdeliver_call ==
  LET t == current_task
      h == Top(t).h
  IN /\ panicked' = (h = NULL)       \* call through a null function pointer
     /\ tpc' = [tpc EXCEPT ![t] = <<[pc |-> "sigreturn"]>> \o Tail(@)]
     /\ last' = [op |-> "handler", tcb |-> t, h |-> h,
                 pending |-> sigdeliver[t]]

up_sigdeliver_return ==
  /\ tpc' = Pop(current_task)


(***************************************************************************)
(* Interrupt entry and exit (the architecture's IRQ shim)                  *)
(***************************************************************************)
\* Interrupts are disabled on entry to up_sigdeliver; handlers may be nested.
IrqsEnabled == nest_irq > 0 \/ Top(current_task).pc # "sigdeliver"

irq_enter ==
  /\ nest_irq' = nest_irq + 1
  /\ UNCHANGED <<current_task, sched, lockcount, exited, panicked, sigs, last>>

\* On return to task level the shim makes the interrupted task enter
\* up_sigdeliver if a handler was stored for it, and dispatches the head of
\* the ready-to-run list.
irq_exit ==
  LET rtcb == current_task
      ntcb == Head(g_readytorun)
  IN /\ nest_irq' = nest_irq - 1
     /\ IF nest_irq = 1
        THEN /\ tpc' = IF sigdeliver[rtcb] # NULL
                       THEN Push(rtcb, [pc |-> "sigdeliver"])
                       ELSE tpc
             /\ current_task' = ntcb
             /\ last' = [op |-> "dispatch", from |-> rtcb, to |-> ntcb,
                         deliver |-> (sigdeliver[rtcb] # NULL)]
        ELSE UNCHANGED <<tpc, current_task, last>>
     /\ UNCHANGED <<sched, lockcount, exited, panicked, sigdeliver,
                    xcp_pushed>>

(***************************************************************************)
(* sched_lock and sched_unlock of the running task                         *)
(***************************************************************************)
sched_lock ==
  /\ lockcount' = [lockcount EXCEPT ![current_task] = @ + 1]
  /\ UNCHANGED <<current_task, nest_irq, sched, exited, panicked, sigs, last>>

sched_unlock ==
  /\ lockcount' = [lockcount EXCEPT ![current_task] = @ - 1]
  /\ IF lockcount[current_task] = 1 /\ g_pendingtasks # <<>>
     THEN up_release_pending
     ELSE UNCHANGED <<current_task, sched, panicked, last>>
  /\ UNCHANGED <<nest_irq, exited, sigs>>

(***************************************************************************)
(* The calls the operating system makes                                    *)
(***************************************************************************)
TaskLevel == ~panicked /\ nest_irq = 0 /\ tpc[current_task] = <<>>
IrqLevel  == ~panicked /\ nest_irq > 0
Resumes(pc) == ~panicked /\ nest_irq = 0 /\ Top(current_task).pc = pc

\* No suspended up_schedule_sigaction call still refers to the TCB.
Unreferenced(tcb) ==
  \A t \in Tcbs : \A i \in 1..Len(tpc[t]) :
     tpc[t][i].pc = "sig_body" => tpc[t][i].tcb # tcb

BlockCall(tcb, state, asserts) ==
  /\ TaskLevel \/ IrqLevel
  /\ Callable(tcb)
  /\ asserts => ~BlockedRange(state)
  /\ up_block_task(tcb, state, asserts)
  /\ UNCHANGED <<nest_irq, lockcount, exited, sigs>>
  /\ UNCHANGED <<tvars, kvars>>

Block ==
  \E tcb \in Tcbs, state \in BlockTargets, asserts \in BOOLEAN :
     BlockCall(tcb, state, asserts)

UnblockCall(tcb) ==
  /\ TaskLevel \/ IrqLevel
  /\ tcb \in UserTcbs \ exited
  /\ up_unblock_task(tcb)
  /\ UNCHANGED <<nest_irq, lockcount, exited, sigs>>
  /\ UNCHANGED <<tvars, kvars>>

Unblock == \E tcb \in Tcbs : UnblockCall(tcb)

ReprioritizeCall(tcb, priority) ==
  /\ TaskLevel \/ IrqLevel
  /\ Callable(tcb)
  /\ up_reprioritize_rtr(tcb, priority)
  /\ UNCHANGED <<nest_irq, lockcount, exited, sigs>>
  /\ UNCHANGED <<tvars, kvars>>

Reprioritize ==
  \E tcb \in Tcbs, priority \in Priorities : ReprioritizeCall(tcb, priority)

\* sched_unlock calls up_release_pending once the lock count is back to 0.
ReleasePending ==
  /\ TaskLevel \/ IrqLevel
  /\ nest_irq = 0 => lockcount[current_task] = 0
  /\ up_release_pending
  /\ UNCHANGED <<nest_irq, lockcount, exited, sigs>>
  /\ UNCHANGED <<tvars, kvars>>

Exit ==
  /\ TaskLevel \/ IrqLevel
  /\ Head(g_readytorun) # IdleTcb
  /\ Unreferenced(Head(g_readytorun))
  /\ tpc[Head(g_readytorun)] = <<>>
  /\ up_exit
  /\ UNCHANGED <<nest_irq, sigs>>
  /\ UNCHANGED <<tvars, kvars>>

SchedLock ==
  /\ TaskLevel
  /\ lockcount[current_task] < MaxLock
  /\ sched_lock
  /\ UNCHANGED <<tvars, kvars>>

SchedUnlock ==
  /\ TaskLevel
  /\ lockcount[current_task] > 0
  /\ sched_unlock
  /\ UNCHANGED <<tvars, kvars>>

SigactionCheck ==
  /\ TaskLevel
  /\ \E tcb \in UserTcbs \ exited, h \in Handlers :
       /\ Len(tpc[tcb]) < MaxFrames
       /\ xcp_pushed[tcb] < MaxPush
       /\ SigCheck(tcb, h)
  /\ UNCHANGED <<current_task, nest_irq, sched, lockcount, exited, panicked>>
  /\ UNCHANGED <<tvars, kvars>>

SigactionBody ==
  /\ Resumes("sig_body")
  /\ LET f == Top(current_task) IN
       /\ f.tcb # current_task => xcp_pushed[f.tcb] < MaxPush
       /\ SigBody(f.tcb, f.h, Pop(current_task))
  /\ UNCHANGED <<current_task, nest_irq, sched, lockcount, exited, panicked>>
  /\ UNCHANGED <<tvars, kvars>>

SigactionIrq ==
  /\ IrqLevel
  /\ \E tcb \in Tcbs \ exited, h \in Handlers :
       /\ Len(tpc[tcb]) < MaxFrames
       /\ xcp_pushed[tcb] < MaxPush
       /\ up_schedule_sigaction(tcb, h)
  /\ UNCHANGED <<current_task, nest_irq, sched, lockcount, exited, panicked>>
  /\ UNCHANGED <<tvars, kvars>>

DeliverEntry ==
  /\ Resumes("sigdeliver")
  /\ up_sigdeliver_entry
  /\ UNCHANGED <<current_task, nest_irq, sched, lockcount, exited, panicked>>
  /\ UNCHANGED <<tvars, kvars>>

DeliverCall ==
  /\ Resumes("handler")
  /\ up_sigdeliver_call
  /\ UNCHANGED <<current_task, nest_irq, sched, lockcount, exited,
                 sigdeliver, xcp_pushed>>
  /\ UNCHANGED <<tvars, kvars>>

DeliverReturn ==
  /\ Resumes("sigreturn")
  /\ up_sigdeliver_return
  /\ UNCHANGED <<current_task, nest_irq, sched, lockcount, exited, panicked,
                 sigdeliver, xcp_pushed, last>>
  /\ UNCHANGED <<tvars, kvars>>

IrqEnter ==
  /\ ~panicked
  /\ IrqsEnabled
  /\ nest_irq < MaxNest
  /\ irq_enter
  /\ UNCHANGED <<tvars, kvars>>

IrqExit ==
  /\ IrqLevel
  /\ irq_exit
  /\ UNCHANGED <<tvars, kvars>>

(***************************************************************************)
(* Tickless time source: conversions between timespec and ticks            *)
(***************************************************************************)
NSEC_PER_SEC == NS_PER_SEC
Uint64(x) == x % (2 ^ TscBits)

Timespecs == [tv_sec : 0..MaxSec, tv_nsec : 0..(NS_PER_SEC - 1)]
ZeroTs == [tv_sec |-> 0, tv_nsec |-> 0]
NoTs == [tv_sec |-> -1, tv_nsec |-> -1]       \* a null timespec pointer
TscFreqs == {NS_PER_SEC + 1}
svars == <<current_task, nest_irq, g_readytorun, g_pendingtasks, g_blocked,
           task_state, sched_priority, lockcount, exited, panicked,
           sigdeliver, xcp_pushed, tpc, last>>

ROUND_INT_DIV_trunc(s, d) == s \div d

ROUND_INT_DIV(s, d) == (s + (d \div 2)) \div d

up_ts2tick(ts) ==
  Uint64(ROUND_INT_DIV(ts.tv_nsec * tcfg.tsc_freq, NS_PER_SEC)
         + ts.tv_sec * tcfg.tsc_freq)

up_tick2ts(tick) ==
  [tv_sec  |-> tick \div tcfg.tsc_freq,
   tv_nsec |-> ROUND_INT_DIV((tick % tcfg.tsc_freq) * NSEC_PER_SEC,
                             tcfg.tsc_freq)]

(***************************************************************************)
(* The CPU and the local APIC timer in TSC-deadline mode.  The timer fires *)
(* once when the counter reaches the armed deadline; the interrupt is      *)
(* latched unless the LVT entry is masked at that moment.                  *)
(***************************************************************************)
Fire(h) ==
  IF h.armed /\ h.tsc >= h.deadline
  THEN [h EXCEPT !.armed = FALSE, !.irr = (h.irr \/ ~h.masked)]
  ELSE h

rdtsc(h) == h.tsc
write_msr_deadline(h, v) == Fire([h EXCEPT !.deadline = v, !.armed = (v # 0)])
up_mask_tmr(h) == [h EXCEPT !.masked = TRUE]
up_unmask_tmr(h) == [h EXCEPT !.masked = FALSE]
enter_critical_section(h) == [h EXCEPT !.iflag = FALSE]
leave_critical_section(h, flags) == [h EXCEPT !.iflag = flags]

(***************************************************************************)
(* up_tmr_sync_up and up_tmr_sync_down, one statement at a time.  Each     *)
(* returns the timer state block, the CPU state and the next position.     *)
(***************************************************************************)
\* Mutant: every sync_up saves the flags and enters the critical section.
up_tmr_sync_up_always(pc) ==
  CASE pc = "sync_test" ->
         [tmr |-> tmr, hw |-> hw, pc |-> "sync_enter"]
    [] pc = "sync_enter" ->
         [tmr |-> [tmr EXCEPT !.g_tmr_flags = hw.iflag],
          hw |-> enter_critical_section(hw), pc |-> "sync_inc"]
    [] pc = "sync_inc" ->
         [tmr |-> [tmr EXCEPT !.g_tmr_sync_count = @ + 1],
          hw |-> hw, pc |-> "body"]

up_tmr_sync_up_noinc(pc) ==
  CASE pc = "sync_test" ->
         [tmr |-> tmr, hw |-> hw,
          pc |-> IF tmr.g_tmr_sync_count = 0 THEN "sync_enter" ELSE "sync_inc"]
    [] pc = "sync_enter" ->
         [tmr |-> [tmr EXCEPT !.g_tmr_flags = hw.iflag],
          hw |-> enter_critical_section(hw), pc |-> "sync_inc"]
    [] pc = "sync_inc" ->
         [tmr |-> tmr, hw |-> hw, pc |-> "body"]

up_tmr_sync_up(pc) ==
  CASE pc = "sync_test" ->
         [tmr |-> tmr, hw |-> hw,
          pc |-> IF tmr.g_tmr_sync_count = 0 THEN "sync_enter" ELSE "sync_inc"]
    [] pc = "sync_enter" ->
         [tmr |-> [tmr EXCEPT !.g_tmr_flags = hw.iflag],
          hw |-> enter_critical_section(hw), pc |-> "sync_inc"]
    [] pc = "sync_inc" ->
         [tmr |-> [tmr EXCEPT !.g_tmr_sync_count = @ + 1],
          hw |-> hw, pc |-> "body"]

up_tmr_sync_down_nodec(pc) ==
  CASE pc = "down_test" ->
         [tmr |-> tmr,
          hw |-> IF tmr.g_tmr_sync_count = 1
                 THEN leave_critical_section(hw, tmr.g_tmr_flags) ELSE hw,
          pc |-> "down_dec"]
    [] pc = "down_dec" ->
         [tmr |-> tmr, hw |-> hw, pc |-> "ret"]

up_tmr_sync_down(pc) ==
  CASE pc = "down_test" ->
         [tmr |-> tmr,
          hw |-> IF tmr.g_tmr_sync_count = 1
                 THEN leave_critical_section(hw, tmr.g_tmr_flags) ELSE hw,
          pc |-> "down_dec"]
    [] pc = "down_dec" ->
         [tmr |-> IF tmr.g_tmr_sync_count > 0
                  THEN [tmr EXCEPT !.g_tmr_sync_count = @ - 1] ELSE tmr,
          hw |-> hw, pc |-> "ret"]

(***************************************************************************)
(* The timer operations between up_tmr_sync_up and up_tmr_sync_down.  ts   *)
(* is the caller's timespec (NoTs: a null pointer); out is what the call   *)
(* stores through it.                                                      *)
(***************************************************************************)
up_timer_gettime ==
  up_tick2ts(Uint64(rdtsc(hw) - tmr.g_start_tsc))

up_timer_start(ts) ==
  LET ticks == Uint64(up_ts2tick(ts) + rdtsc(hw))
      h1 == write_msr_deadline(hw, ticks)
  IN [tmr |-> [tmr EXCEPT !.g_timer_active = 1, !.g_goal_time = ticks],
      hw |-> up_unmask_tmr(h1),
      out |-> NoTs]

up_timer_cancel_keepactive(ts) ==
  LET h1 == up_mask_tmr(hw)
  IN [tmr |-> tmr,
      hw |-> h1,
      out |-> IF ts = NoTs THEN NoTs
              ELSE IF tmr.g_timer_active # 0
                   THEN up_tick2ts(Uint64(tmr.g_goal_time - rdtsc(h1)))
                   ELSE ZeroTs]

up_timer_cancel(ts) ==
  LET h1 == up_mask_tmr(hw)
  IN [tmr |-> [tmr EXCEPT !.g_timer_active = 0],
      hw |-> h1,
      out |-> IF ts = NoTs THEN NoTs
              ELSE IF tmr.g_timer_active # 0
                   THEN up_tick2ts(Uint64(tmr.g_goal_time - rdtsc(h1)))
                   ELSE ZeroTs]

\* Mutant: the handler calls the hook without masking the timer.
up_timer_expire_nomask ==
  [tmr |-> [tmr EXCEPT !.g_timer_active = 0],
   hw |-> hw,
   out |-> NoTs]

\* up_timer_expire up to its call of sched_timer_expiration
up_timer_expire ==
  [tmr |-> [tmr EXCEPT !.g_timer_active = 0],
   hw |-> up_mask_tmr(hw),
   out |-> NoTs]

up_alarm_start(ts) ==
  LET h1 == up_unmask_tmr(hw)
      ticks == Uint64(up_ts2tick(ts) + tmr.g_start_tsc)
  IN [tmr |-> [tmr EXCEPT !.g_timer_active = 1, !.g_goal_time_ts = ts],
      hw |-> write_msr_deadline(h1, ticks),
      out |-> NoTs]

up_alarm_cancel(ts) ==
  [tmr |-> [tmr EXCEPT !.g_timer_active = 0],
   hw |-> up_mask_tmr(hw),
   out |-> IF ts = NoTs THEN NoTs ELSE up_timer_gettime]

\* up_alarm_expire up to its call of nxsched_alarm_expiration(&now)
up_alarm_expire ==
  [tmr |-> [tmr EXCEPT !.g_timer_active = 0],
   hw |-> up_mask_tmr(hw),
   out |-> up_timer_gettime]

(***************************************************************************)
(* Steps of the time source.  A pending timer interrupt is taken as soon   *)
(* as the CPU accepts interrupts, before any other instruction.            *)
(***************************************************************************)
MaxCalls == 3
TopCall == IF tcall = <<>> THEN [kind |-> "none", pc |-> "none"] ELSE Head(tcall)
CanRun == ~(hw.irr /\ hw.iflag)
AtCallSite == tcall = <<>> \/ (TopCall.kind = "irq" /\ TopCall.pc = "hook")
InCall(pcs) == CanRun /\ TopCall.kind = "call" /\ TopCall.pc \in pcs
SetTop(f) == <<f>> \o Tail(tcall)

Intervals == {[tv_sec |-> 0, tv_nsec |-> 1],
              [tv_sec |-> 0, tv_nsec |-> NS_PER_SEC - 1],
              [tv_sec |-> MaxSec, tv_nsec |-> 0]}

TmrTrace(op, out) ==
  [op |-> op, out |-> out, depth |-> tmr.g_tmr_sync_count,
   iflag |-> hw.iflag, active0 |-> tmr.g_timer_active,
   cancelled |-> tobs.cancelled, phase |-> tobs.phase]

\* The OS calls start or cancel, from a task or from the expiration hook.
TmrCall ==
  /\ CanRun
  /\ AtCallSite
  /\ Len(tcall) < MaxCalls
  /\ \E op \in {"start", "cancel"} :
     \E ts \in (IF op = "start" THEN Intervals ELSE {NoTs, ZeroTs}) :
        /\ tcall' = <<[kind |-> "call", op |-> op, pc |-> "sync_test",
                       ts |-> ts, out |-> NoTs,
                       depth0 |-> tmr.g_tmr_sync_count]>> \o tcall
        /\ tobs' = IF op = "start" THEN [tobs EXCEPT !.cancelled = FALSE]
                   ELSE tobs
  /\ UNCHANGED <<svars, kvars, tcfg, tmr, hw, tlast>>

TmrSyncUp ==
  /\ InCall({"sync_test", "sync_enter", "sync_inc"})
  /\ LET r == up_tmr_sync_up(TopCall.pc) IN
       /\ tmr' = r.tmr
       /\ hw' = r.hw
       /\ tcall' = SetTop([TopCall EXCEPT !.pc = r.pc])
  /\ UNCHANGED <<svars, kvars, tcfg, tobs, tlast>>

TmrBody ==
  /\ InCall({"body"})
  /\ LET f == TopCall
         r == IF tcfg.alarm
              THEN IF f.op = "start" THEN up_alarm_start(f.ts)
                                     ELSE up_alarm_cancel(f.ts)
              ELSE IF f.op = "start" THEN up_timer_start(f.ts)
                                     ELSE up_timer_cancel(f.ts)
     IN /\ tmr' = r.tmr
        /\ hw' = r.hw
        /\ tcall' = SetTop([f EXCEPT !.pc = "down_test", !.out = r.out])
        /\ tlast' = TmrTrace(f.op, r.out)
        /\ tobs' = IF f.op = "start"
                   THEN [tobs EXCEPT !.phase = "started", !.start_ts = f.ts]
                   ELSE [tobs EXCEPT !.phase = "cancelled"]
  /\ UNCHANGED <<svars, kvars, tcfg>>

TmrSyncDown ==
  /\ InCall({"down_test", "down_dec"})
  /\ LET r == up_tmr_sync_down(TopCall.pc) IN
       /\ tmr' = r.tmr
       /\ hw' = r.hw
       /\ tcall' = SetTop([TopCall EXCEPT !.pc = r.pc])
  /\ UNCHANGED <<svars, kvars, tcfg, tobs, tlast>>

TmrReturn ==
  /\ InCall({"ret"})
  /\ tcall' = Tail(tcall)
  /\ tobs' = IF TopCall.op = "cancel" THEN [tobs EXCEPT !.cancelled = TRUE]
             ELSE tobs
  /\ tlast' = TmrTrace("return", TopCall.out)
  /\ UNCHANGED <<svars, kvars, tcfg, tmr, hw>>

\* The CPU takes the timer interrupt: interrupts are disabled in the handler.
TmrIrq ==
  /\ hw.irr /\ hw.iflag
  /\ hw' = [hw EXCEPT !.irr = FALSE, !.iflag = FALSE]
  /\ tcall' = <<[kind |-> "irq", pc |-> "expire"]>> \o tcall
  /\ UNCHANGED <<svars, kvars, tcfg, tmr, tobs, tlast>>

\* up_timer_expire or up_alarm_expire, entering the scheduler's hook.
TmrExpire ==
  /\ TopCall.kind = "irq" /\ TopCall.pc = "expire"
  /\ LET r == IF tcfg.alarm THEN up_alarm_expire ELSE up_timer_expire IN
       /\ tmr' = r.tmr
       /\ hw' = r.hw
       /\ tlast' = TmrTrace("hook", r.out)
  /\ tcall' = SetTop([TopCall EXCEPT !.pc = "hook"])
  /\ tobs' = [tobs EXCEPT !.phase = IF @ = "started" THEN "fired" ELSE @]
  /\ UNCHANGED <<svars, kvars, tcfg>>

\* The hook and the handler return; iret re-enables interrupts.
TmrIret ==
  /\ TopCall.kind = "irq" /\ TopCall.pc = "hook"
  /\ tcall' = Tail(tcall)
  /\ hw' = [hw EXCEPT !.iflag = TRUE]
  /\ UNCHANGED <<svars, kvars, tcfg, tmr, tobs, tlast>>

\* The timestamp counter advances.
TmrTick ==
  /\ CanRun
  /\ hw.tsc < MaxTsc
  /\ hw' = Fire([hw EXCEPT !.tsc = @ + 1])
  /\ UNCHANGED <<svars, kvars, tcfg, tmr, tcall, tobs, tlast>>

\* up_timer_initialize, with the LVT entry masked as after reset.
TmrBoot(freq, alarm) ==
  /\ tcfg = [tsc_freq |-> freq, alarm |-> alarm]
  /\ tmr = [g_start_tsc |-> 0, g_last_stop_time |-> 0, g_goal_time |-> 0,
            g_goal_time_ts |-> ZeroTs, g_timer_active |-> 0,
            g_tmr_sync_count |-> 0, g_tmr_flags |-> FALSE]
  /\ hw = [tsc |-> 0, deadline |-> 0, armed |-> FALSE, masked |-> TRUE,
           irr |-> FALSE, iflag |-> TRUE]
  /\ tcall = <<>>
  /\ tobs = [phase |-> "idle", cancelled |-> FALSE, start_ts |-> ZeroTs]
  /\ tlast = [op |-> "none"]

(***************************************************************************)
(* The stack manager: up_create_stack, up_use_stack, up_stack_frame and    *)
(* up_release_stack on one TCB.  Addresses and sizes are bytes.  The two   *)
(* allocators are outside the port: malloc returns an 8-byte aligned       *)
(* buffer that is not in use, or NULL; mm records what they handed out and *)
(* what was passed to their free.                                          *)
(***************************************************************************)
StackSizes == 0..MaxStack
HeapAddrs == {32, 64}            \* where an allocator can place a buffer
CallerBufs == {128, 164}         \* buffers a caller passes to up_use_stack
TCB_FLAG_TTYPE_TASK == "TASK"
TCB_FLAG_TTYPE_KERNEL == "KERNEL"
TaskTypes == {TCB_FLAG_TTYPE_TASK, TCB_FLAG_TTYPE_KERNEL}

AlignDown(x, a) == x - (x % a)   \* x & ~(a - 1)
AlignUp(x, a) == AlignDown(x + (a - 1), a)

\* The allocator a call uses: kmm_* only for a kernel thread in a build with
\* CONFIG_BUILD_KERNEL and CONFIG_MM_KERNEL_HEAP.
Allocator(ttype) ==
  IF mm.kheap /\ ttype = TCB_FLAG_TTYPE_KERNEL THEN "kmm" ELSE "kumm"

LiveAddrs == {b.addr : b \in mm.live}

\* malloc(size) on heap returning addr (NULL: out of memory).
Malloc(m, heap, size, addr) ==
  IF addr = NULL THEN m
  ELSE [m EXCEPT !.live = @ \cup {[id |-> m.next, addr |-> addr,
                                   size |-> size, heap |-> heap]},
                 !.next = @ + 1]

\* free(addr) on heap: the buffer leaves the live set and the call is logged
\* with the allocation it released (id 0: not a buffer of an allocator).
Free(m, heap, addr) ==
  LET hit == {b \in m.live : b.addr = addr}
      id == IF hit = {} THEN 0 ELSE (CHOOSE b \in hit : TRUE).id
      from == IF hit = {} THEN "none" ELSE (CHOOSE b \in hit : TRUE).heap
  IN [m EXCEPT !.live = @ \ hit,
               !.freed = Append(@, [addr |-> addr, heap |-> heap,
                                    id |-> id, from |-> from])]

NullStack == [stack_alloc_ptr |-> NULL, adj_stack_size |-> 0,
              adj_stack_ptr |-> NULL, bufsize |-> 0]

up_create_stack(stack_size, ttype, addr) ==
  LET adj_stack_size == AlignUp(stack_size, 4)
      adj_stack_words == adj_stack_size \div 4
      heap == Allocator(ttype)
      asked == IF heap = "kmm" THEN stack_size ELSE adj_stack_size
      adj_stack_ptr == addr + 4 * (adj_stack_words - 1)
  IN [stk |-> IF addr # NULL
              THEN [stack_alloc_ptr |-> addr,
                    adj_stack_size |-> adj_stack_size,
                    adj_stack_ptr |-> AlignDown(adj_stack_ptr, 8),
                    bufsize |-> asked]
              ELSE stk,
      mm |-> Malloc(mm, heap, asked, addr),
      ret |-> IF addr # NULL THEN "OK" ELSE "ERROR"]

up_use_stack(stack, stack_size) ==
  LET adj_stack_size == AlignDown(stack_size, 4)
      adj_stack_words == adj_stack_size \div 4
      adj_stack_ptr == stack + 4 * (adj_stack_words - 1)
  IN [stk |-> [stack_alloc_ptr |-> stack,
               adj_stack_size |-> adj_stack_size,
               adj_stack_ptr |-> AlignDown(adj_stack_ptr, 8),
               bufsize |-> stack_size],
      mm |-> mm,
      ret |-> "OK"]

up_stack_frame(size) ==
  LET frame_size == AlignUp(size, 4) IN
  IF stk.stack_alloc_ptr = NULL \/ stk.adj_stack_size <= frame_size
  THEN [stk |-> stk, mm |-> mm, ret |-> NULL]
  ELSE LET topaddr == stk.adj_stack_ptr - frame_size IN
       [stk |-> [stk EXCEPT !.adj_stack_ptr = topaddr,
                            !.adj_stack_size = @ - frame_size],
        mm |-> mm,
        ret |-> topaddr + 4]

up_release_stack_keepsize(ttype) ==
  [stk |-> [NullStack EXCEPT !.adj_stack_size = stk.adj_stack_size],
   mm |-> IF stk.stack_alloc_ptr # NULL
          THEN Free(mm, Allocator(ttype), stk.stack_alloc_ptr)
          ELSE mm,
   ret |-> "OK"]

up_release_stack(ttype) ==
  [stk |-> NullStack,
   mm |-> IF stk.stack_alloc_ptr # NULL
          THEN Free(mm, Allocator(ttype), stk.stack_alloc_ptr)
          ELSE mm,
   ret |-> "OK"]

StackTrace(op, r) ==
  [op |-> op, ret |-> r.ret, before |-> stk, prev |-> klast.op,
   frees |-> Len(r.mm.freed) - Len(mm.freed)]

StackDo(op, r) ==
  /\ stk' = r.stk
  /\ mm' = [r.mm EXCEPT !.calls = @ + 1]
  /\ klast' = StackTrace(op, r)
  /\ UNCHANGED <<svars, tvars>>

CreateStack ==
  /\ mm.calls < MaxStackOps
  /\ \E stack_size \in StackSizes,
        addr \in {NULL} \cup (HeapAddrs \ LiveAddrs) :
       StackDo("create", up_create_stack(stack_size, mm.ttype, addr))

UseStack ==
  /\ mm.calls < MaxStackOps
  /\ \E stack \in CallerBufs, stack_size \in StackSizes :
       StackDo("adopt", up_use_stack(stack, stack_size))

StackFrame ==
  /\ mm.calls < MaxStackOps
  /\ \E frame_size \in StackSizes :
       StackDo("frame", up_stack_frame(frame_size))

ReleaseStack ==
  /\ mm.calls < MaxStackOps
  /\ StackDo("release", up_release_stack(mm.ttype))

\* A TCB as the scheduler allocates it: no stack.
StackBoot(kheap, ttype) ==
  /\ stk = NullStack
  /\ mm = [kheap |-> kheap, ttype |-> ttype, live |-> {}, freed |-> <<>>,
           next |-> 1, calls |-> 0]
  /\ klast = [op |-> "none"]

(***************************************************************************)
(* up_initialize: the idle task is current; the other tasks are created    *)
(* inactive.                                                               *)
(***************************************************************************)
Init ==
  /\ current_task = IdleTcb
  /\ nest_irq = 0
  /\ g_readytorun = <<IdleTcb>>
  /\ g_pendingtasks = <<>>
  /\ g_blocked = UserTcbs
  /\ task_state = [t \in Tcbs |-> IF t = IdleTcb THEN TSTATE_TASK_RUNNING
                                  ELSE TSTATE_TASK_INACTIVE]
  /\ sched_priority \in {f \in [Tcbs -> UINT8_MIN..SCHED_PRIORITY_MAX] :
        /\ f[IdleTcb] = 0
        /\ \A t \in UserTcbs : f[t] >= SCHED_PRIORITY_MIN}
  /\ lockcount = [t \in Tcbs |-> 0]
  /\ exited = {}
  /\ panicked = FALSE
  /\ sigdeliver = [t \in Tcbs |-> NULL]
  /\ xcp_pushed = [t \in Tcbs |-> 0]
  /\ tpc = [t \in Tcbs |-> <<>>]
  /\ last = NoTrace
  /\ TmrBoot(NS_PER_SEC, FALSE)
  /\ StackBoot(FALSE, TCB_FLAG_TTYPE_TASK)

\* The scheduler-interaction layer under task-level and interrupt-level calls.
Next ==
  \/ Block
  \/ Unblock
  \/ Reprioritize
  \/ ReleasePending
  \/ Exit
  \/ SchedLock
  \/ SchedUnlock
  \/ IrqEnter
  \/ IrqExit

Spec == Init /\ [][Next]_vars

\* Signal delivery: tasks are started, signalled from task level and from
\* interrupt handlers, and dispatched on return from interrupt.
SigNext ==
  \/ Unblock
  \/ SigactionCheck
  \/ SigactionBody
  \/ SigactionIrq
  \/ DeliverEntry
  \/ DeliverCall
  \/ DeliverReturn
  \/ IrqEnter
  \/ IrqExit

SigSpec == Init /\ [][SigNext]_vars

\* Signal delivery while interrupt handlers also change task priorities:
\* a task that was interrupted inside up_schedule_sigaction may be resumed
\* after the interrupted task of a later interrupt.
UnblockTask == TaskLevel /\ Unblock

ReprioritizeIrq ==
  /\ IrqLevel
  /\ \E tcb \in UserTcbs, priority \in SCHED_PRIORITY_MIN..SCHED_PRIORITY_MAX :
        ReprioritizeCall(tcb, priority)

SigPrioNext ==
  \/ UnblockTask
  \/ ReprioritizeIrq
  \/ SigactionCheck
  \/ SigactionBody
  \/ SigactionIrq
  \/ DeliverEntry
  \/ DeliverCall
  \/ DeliverReturn
  \/ IrqEnter
  \/ IrqExit

SigPrioSpec == Init /\ [][SigPrioNext]_vars

\* The scheduler-interaction layer when the scheduler calls it from task
\* level only; interrupts come and go without calling it.
BlockTask          == TaskLevel /\ Block
ReprioritizeTask   == TaskLevel /\ Reprioritize
ReleasePendingTask == TaskLevel /\ ReleasePending
ExitTask           == TaskLevel /\ Exit

TaskNext ==
  \/ BlockTask
  \/ UnblockTask
  \/ ReprioritizeTask
  \/ ReleasePendingTask
  \/ ExitTask
  \/ SchedLock
  \/ SchedUnlock
  \/ IrqEnter
  \/ IrqExit

TaskSpec == Init /\ [][TaskNext]_vars

\* Signal delivery with signals raised by tasks and by interrupt handlers,
\* also while the signalled task is inside up_sigdeliver.
MaxDeliver == 2

SigactionDuring ==
  /\ IrqLevel
  /\ \E tcb \in Tcbs \ exited, h \in Handlers :
       /\ Len(tpc[tcb]) < MaxDeliver
       /\ xcp_pushed[tcb] < MaxPush
       /\ up_schedule_sigaction(tcb, h)
  /\ UNCHANGED <<current_task, nest_irq, sched, lockcount, exited, panicked>>
  /\ UNCHANGED <<tvars, kvars>>

DeliverNext ==
  \/ UnblockTask
  \/ SigactionCheck
  \/ SigactionBody
  \/ SigactionDuring
  \/ DeliverEntry
  \/ DeliverCall
  \/ DeliverReturn
  \/ IrqEnter
  \/ IrqExit

DeliverSpec == Init /\ [][DeliverNext]_vars

\* The time source: the OS starts and cancels the timer from tasks and from
\* the expiration hook while the counter advances.
TmrInit ==
  /\ current_task = IdleTcb
  /\ nest_irq = 0
  /\ g_readytorun = <<IdleTcb>>
  /\ g_pendingtasks = <<>>
  /\ g_blocked = UserTcbs
  /\ task_state = [t \in Tcbs |-> IF t = IdleTcb THEN TSTATE_TASK_RUNNING
                                  ELSE TSTATE_TASK_INACTIVE]
  /\ sched_priority = [t \in Tcbs |-> IF t = IdleTcb THEN 0
                                      ELSE SCHED_PRIORITY_MIN]
  /\ lockcount = [t \in Tcbs |-> 0]
  /\ exited = {}
  /\ panicked = FALSE
  /\ sigdeliver = [t \in Tcbs |-> NULL]
  /\ xcp_pushed = [t \in Tcbs |-> 0]
  /\ tpc = [t \in Tcbs |-> <<>>]
  /\ last = NoTrace
  /\ \E freq \in TscFreqs, alarm \in BOOLEAN : TmrBoot(freq, alarm)
  /\ StackBoot(FALSE, TCB_FLAG_TTYPE_TASK)

TmrNext ==
  \/ TmrCall
  \/ TmrSyncUp
  \/ TmrBody
  \/ TmrSyncDown
  \/ TmrReturn
  \/ TmrIrq
  \/ TmrExpire
  \/ TmrIret
  \/ TmrTick

TmrSpec == TmrInit /\ [][TmrNext]_vars

(***************************************************************************)
(* The sync pair on its own: up_tmr_sync_up and up_tmr_sync_down called in *)
(* any order from task level while the counter advances.                   *)
(***************************************************************************)
MaxSyncDepth == 3

SyncCall ==
  /\ tcall = <<>>
  /\ \E op \in {"sync_up", "sync_down"} :
       /\ op = "sync_up" => tmr.g_tmr_sync_count < MaxSyncDepth
       /\ tcall' = <<[kind |-> "call", op |-> op,
                      pc |-> IF op = "sync_up" THEN "sync_test"
                                               ELSE "down_test",
                      ts |-> NoTs, out |-> NoTs,
                      depth0 |-> tmr.g_tmr_sync_count]>>
  /\ UNCHANGED <<svars, kvars, tcfg, tmr, hw, tobs, tlast>>

SyncReturn ==
  /\ \/ InCall({"body"}) /\ TopCall.op = "sync_up"
     \/ InCall({"ret"}) /\ TopCall.op = "sync_down"
  /\ tcall' = Tail(tcall)
  /\ tlast' = [op |-> TopCall.op, depth0 |-> TopCall.depth0,
               depth |-> tmr.g_tmr_sync_count, iflag |-> hw.iflag,
               panicked |-> panicked]
  /\ UNCHANGED <<svars, kvars, tcfg, tmr, hw, tobs>>

SyncInit ==
  /\ TmrInit
  /\ ~tcfg.alarm

SyncNext ==
  \/ SyncCall
  \/ TmrSyncUp
  \/ TmrSyncDown
  \/ SyncReturn
  \/ TmrTick

SyncSpec == SyncInit /\ [][SyncNext]_vars

(***************************************************************************)
(* The interval timer under fairness: the counter is free-running, the CPU *)
(* keeps executing the function and the handler it is in, and the LAPIC    *)
(* delivers a pending interrupt, so each of these steps is weakly fair.    *)
(* The calls of the OS are not: it may never call again.                   *)
(***************************************************************************)
TmrLiveInit == TmrInit /\ ~tcfg.alarm

TmrLiveSpec ==
  /\ TmrLiveInit
  /\ [][TmrNext]_vars
  /\ WF_vars(TmrSyncUp)
  /\ WF_vars(TmrBody)
  /\ WF_vars(TmrSyncDown)
  /\ WF_vars(TmrReturn)
  /\ WF_vars(TmrIrq)
  /\ WF_vars(TmrExpire)
  /\ WF_vars(TmrIret)
  /\ WF_vars(TmrTick)

(***************************************************************************)
(* The conversions on their own: a frequency is configured and timespecs   *)
(* are converted to ticks and back.                                        *)
(***************************************************************************)
ConvFreqs == 1..(3 * NS_PER_SEC)

Convert ==
  /\ \E ts \in Timespecs :
       tlast' = [op |-> "ts2tick", ts |-> ts, tick |-> up_ts2tick(ts),
                 back |-> up_tick2ts(up_ts2tick(ts))]
  /\ UNCHANGED <<svars, kvars, tcfg, tmr, hw, tcall, tobs>>

ConvInit ==
  /\ current_task = IdleTcb
  /\ nest_irq = 0
  /\ g_readytorun = <<IdleTcb>>
  /\ g_pendingtasks = <<>>
  /\ g_blocked = UserTcbs
  /\ task_state = [t \in Tcbs |-> IF t = IdleTcb THEN TSTATE_TASK_RUNNING
                                  ELSE TSTATE_TASK_INACTIVE]
  /\ sched_priority = [t \in Tcbs |-> IF t = IdleTcb THEN 0
                                      ELSE SCHED_PRIORITY_MIN]
  /\ lockcount = [t \in Tcbs |-> 0]
  /\ exited = {}
  /\ panicked = FALSE
  /\ sigdeliver = [t \in Tcbs |-> NULL]
  /\ xcp_pushed = [t \in Tcbs |-> 0]
  /\ tpc = [t \in Tcbs |-> <<>>]
  /\ last = NoTrace
  /\ \E freq \in ConvFreqs : TmrBoot(freq, FALSE)
  /\ StackBoot(FALSE, TCB_FLAG_TTYPE_TASK)

\* up_tick2ts applied to any value of the 64-bit counter.
Ticks == 0..(2 ^ TscBits - 1)

Tick2ts ==
  /\ \E tick \in Ticks :
       tlast' = [op |-> "tick2ts", tick |-> tick, ts |-> up_tick2ts(tick)]
  /\ UNCHANGED <<svars, kvars, tcfg, tmr, hw, tcall, tobs>>

ConvNext ==
  \/ Convert
  \/ Tick2ts

ConvSpec == ConvInit /\ [][ConvNext]_vars

(***************************************************************************)
(* The stack manager on its own: create, adopt, frame and release in any   *)
(* order on one TCB, in either build and for either task type.             *)
(***************************************************************************)
StackInit ==
  /\ current_task = IdleTcb
  /\ nest_irq = 0
  /\ g_readytorun = <<IdleTcb>>
  /\ g_pendingtasks = <<>>
  /\ g_blocked = UserTcbs
  /\ task_state = [t \in Tcbs |-> IF t = IdleTcb THEN TSTATE_TASK_RUNNING
                                  ELSE TSTATE_TASK_INACTIVE]
  /\ sched_priority = [t \in Tcbs |-> IF t = IdleTcb THEN 0
                                      ELSE SCHED_PRIORITY_MIN]
  /\ lockcount = [t \in Tcbs |-> 0]
  /\ exited = {}
  /\ panicked = FALSE
  /\ sigdeliver = [t \in Tcbs |-> NULL]
  /\ xcp_pushed = [t \in Tcbs |-> 0]
  /\ tpc = [t \in Tcbs |-> <<>>]
  /\ last = NoTrace
  /\ TmrBoot(NS_PER_SEC, FALSE)
  /\ \E kheap \in BOOLEAN, ttype \in TaskTypes : StackBoot(kheap, ttype)

StackNext ==
  \/ CreateStack
  \/ UseStack
  \/ StackFrame
  \/ ReleaseStack

StackSpec == StackInit /\ [][StackNext]_vars


(***************************************************************************)
(* Properties of the scheduler-interaction layer                           *)
(***************************************************************************)
SchedOps == {"block", "unblock", "reprioritize", "release", "exit"}

\* C1: no context switch happens in interrupt context.  A call made while
\* the nesting counter is non-zero never reassigns current_task nor runs
\* rgmp_context_switch, and if it entered up_switchcontext with two
\* different TCBs the system has panicked.
C1_NoSwitchInInterrupt ==
  (last.op \in SchedOps /\ last.irq > 0) =>
     /\ ~last.sw.swapped
     /\ last.cur1 = last.cur0
     /\ nest_irq > 0 => current_task = last.cur0
     /\ (last.sw.entered /\ last.sw.from # last.sw.to) =>
           (last.panic /\ panicked)

C1_Witness ==
  /\ last.op \in {"release", "exit"}
  /\ last.irq > 0
  /\ last.sw.entered /\ last.sw.from # last.sw.to
  /\ panicked

\* C2: up_block_task outside interrupt context on a ready TCB with a
\* blocked target state takes the TCB off the ready-to-run list and puts
\* it on the blocked list in that state; if it was the head a context
\* switch from the running task to the new head is made, otherwise none
\* is made and current_task is unchanged.
C2_Block ==
  (last.op = "block" /\ last.irq = 0 /\ last.valid /\ BlockedRange(last.arg)) =>
     /\ ~InSeq(last.tcb, g_readytorun)
     /\ last.tcb \in g_blocked
     /\ task_state[last.tcb] = last.arg
     /\ BlockedRange(task_state[last.tcb])
     /\ last.rem = (last.head0 = last.tcb)
     /\ (last.head0 = last.tcb) =>
           /\ last.sw.swapped
           /\ last.sw.from = last.cur0
           /\ last.sw.to = Head(g_readytorun)
           /\ current_task = Head(g_readytorun)
           /\ current_task # last.tcb
     /\ (last.head0 # last.tcb) =>
           /\ ~last.sw.entered
           /\ current_task = last.cur0

C2_Witness ==
  /\ last.op = "block" /\ last.irq = 0 /\ last.valid
  /\ BlockedRange(last.arg)
  /\ last.head0 = last.tcb
  /\ last.sw.swapped
  /\ current_task = Head(g_readytorun)

PriorityInRange(p) == p >= SCHED_PRIORITY_MIN /\ p <= SCHED_PRIORITY_MAX

C6_ViolationsAreNoOps ==
  [][\A tcb \in Tcbs :
       /\ \A state \in BlockTargets, asserts \in BOOLEAN :
            (/\ ~ReadyRange(task_state[tcb]) \/ ~BlockedRange(state)
             /\ BlockCall(tcb, state, asserts))
            => UNCHANGED <<sched, current_task, panicked>>
       /\ (~BlockedRange(task_state[tcb]) /\ UnblockCall(tcb))
            => UNCHANGED <<sched, current_task, panicked>>
       /\ \A priority \in Priorities :
            (/\ ~ReadyRange(task_state[tcb]) \/ ~PriorityInRange(priority)
             /\ ReprioritizeCall(tcb, priority))
            => UNCHANGED <<sched, current_task, panicked>>
    ]_vars

\* C7: up_release_pending outside interrupt context merges the whole
\* pending list into the ready-to-run list; if the head changed, a context
\* switch from the running task to the new head is made and current_task
\* is the new head, otherwise no switch is made and current_task is
\* unchanged.
C7_ReleasePending ==
  [][(nest_irq = 0 /\ up_release_pending) =>
       /\ g_pendingtasks' = <<>>
       /\ SeqSet(g_readytorun') = SeqSet(g_readytorun) \cup SeqSet(g_pendingtasks)
       /\ Len(g_readytorun') = Len(g_readytorun) + Len(g_pendingtasks)
       /\ (Head(g_readytorun') # Head(g_readytorun)) =>
             /\ last'.suspended = current_task
             /\ last'.resumed = Head(g_readytorun')
             /\ last'.sw.swapped
             /\ last'.sw.from = current_task
             /\ last'.sw.to = Head(g_readytorun')
             /\ current_task' = Head(g_readytorun')
       /\ (Head(g_readytorun') = Head(g_readytorun)) =>
             /\ ~last'.sw.entered
             /\ current_task' = current_task
    ]_vars

C7_Witness ==
  /\ last.op = "release" /\ last.irq = 0
  /\ last.sw.swapped
  /\ last.head1 # last.head0
  /\ current_task = Head(g_readytorun)
  /\ g_pendingtasks = <<>>

\* C8: _exit destroys the head of the ready-to-run list and switches to
\* the new head with a null "from" slot: current_task is the new head,
\* nothing is saved into a context slot, and the exited task never runs
\* again.
C8_Exit ==
  /\ (last.op = "exit") =>
        /\ last.tcb \in exited
        /\ ~InSeq(last.tcb, g_readytorun)
        /\ last.sw.entered
        /\ last.sw.from = NULL
        /\ last.sw.saved = NULL
        /\ last.irq = 0 =>
              /\ last.sw.swapped
              /\ last.sw.to = Head(g_readytorun)
              /\ current_task = Head(g_readytorun)
  /\ ~panicked => current_task \notin exited

C8_Witness ==
  /\ last.op = "exit" /\ last.irq = 0
  /\ last.sw.swapped
  /\ last.cur0 = last.tcb
  /\ last.tcb \in exited
  /\ current_task = Head(g_readytorun)

\* C9: every TCB's state lies in the ready-to-run range or in the blocked
\* range, and block, unblock, reprioritize and release_pending leave a
\* TCB in its range or move it into the range the operation targets
\* (block: blocked; unblock, release_pending and reprioritize: ready).
InARange(s) == ReadyRange(s) \/ BlockedRange(s)
SameRange(s1, s2) == /\ ReadyRange(s1) = ReadyRange(s2)
                     /\ BlockedRange(s1) = BlockedRange(s2)

C9_StateRanges ==
  [][\A t \in Tcbs \ exited :
       /\ InARange(task_state[t]) /\ InARange(task_state'[t])
       /\ (\E tcb \in Tcbs, state \in BlockTargets, asserts \in BOOLEAN :
              BlockCall(tcb, state, asserts))
            => \/ SameRange(task_state[t], task_state'[t])
               \/ BlockedRange(task_state'[t])
       /\ ((\E tcb \in Tcbs : UnblockCall(tcb)) \/ up_release_pending
           \/ \E tcb \in Tcbs, priority \in Priorities :
                 ReprioritizeCall(tcb, priority))
            => \/ SameRange(task_state[t], task_state'[t])
               \/ ReadyRange(task_state'[t])
    ]_vars

(***************************************************************************)
(* Properties of signal delivery                                           *)
(***************************************************************************)
\* C10: under every interleaving of up_schedule_sigaction calls from task
\* level and from interrupt handlers, at most one synthetic frame is
\* pushed on a TCB at a time, and the part of the call that stores the
\* handler never runs for a TCB whose sigdeliver slot is already taken.
C10_OnePendingHandler ==
  /\ \A t \in Tcbs : xcp_pushed[t] <= 1
  /\ (last.op = "sigaction" /\ last.pending0 # NULL) =>
        /\ ~last.stored
        /\ ~last.pushed
        /\ sigdeliver[last.tcb] = last.pending0


\* Number of entries into up_sigdeliver that a task still has to make.
SigFrames(t) ==
  Cardinality({i \in 1..Len(tpc[t]) : tpc[t][i].pc = "sigdeliver"})

\* C11: a handler stored for a task that is not running and has no handler
\* pending comes with exactly one synthetic frame; the stored handler is
\* not altered until up_sigdeliver, run by that task, pops the frame, takes
\* the handler for its one call and nulls the slot; every entry into
\* up_sigdeliver finds a handler, and it is the only entry outstanding.
C11_OtherTaskDelivery ==
  [][\A t \in Tcbs :
       /\ (sigdeliver[t] = NULL /\ sigdeliver'[t] # NULL /\ t # current_task) =>
             /\ xcp_pushed[t] = 0
             /\ xcp_pushed'[t] = 1
             /\ tpc'[t] = <<[pc |-> "sigdeliver"]>> \o tpc[t]
       /\ (sigdeliver[t] # NULL /\ sigdeliver'[t] # sigdeliver[t]) =>
             /\ t = current_task
             /\ nest_irq = 0
             /\ sigdeliver'[t] = NULL
             /\ xcp_pushed'[t] = 0
             /\ Head(tpc[t]).pc = "sigdeliver"
             /\ tpc'[t] = <<[pc |-> "handler", h |-> sigdeliver[t]]>>
                             \o Tail(tpc[t])
       /\ (tpc[t] # <<>> /\ Head(tpc[t]).pc = "sigdeliver"
             /\ tpc'[t] # tpc[t] /\ Len(tpc'[t]) <= Len(tpc[t])) =>
             /\ sigdeliver[t] # NULL
             /\ SigFrames(t) = 1
    ]_vars


\* C12: the interrupt-disabled part of up_schedule_sigaction, run by a task
\* for itself outside interrupt context with no handler pending, calls the
\* handler once within the call, stores nothing in the sigdeliver slot,
\* pushes no synthetic frame, and returns to the caller with interrupts as
\* the caller had them.
C12_SelfSynchronous ==
  [][(/\ Resumes("sig_body")
      /\ Top(current_task).tcb = current_task
      /\ sigdeliver[current_task] = NULL
      /\ tpc' # tpc)
     => /\ last'.op = "sigaction"
        /\ last'.case = "self"
        /\ last'.tcb = current_task
        /\ last'.h = Top(current_task).h
        /\ last'.irq = 0
        /\ last'.ran
        /\ ~last'.stored
        /\ ~last'.pushed
        /\ sigdeliver' = sigdeliver
        /\ xcp_pushed' = xcp_pushed
        /\ tpc'[current_task] = Tail(tpc[current_task])
        /\ current_task' = current_task
        /\ nest_irq' = 0
        /\ IrqsEnabled'
    ]_vars

C12_Witness ==
  /\ last.op = "sigaction"
  /\ last.case = "self"
  /\ last.tcb = current_task
  /\ last.irq = 0
  /\ last.pending0 = NULL
  /\ last.ran
  /\ sigdeliver[current_task] = NULL
  /\ xcp_pushed[current_task] = 0


\* C13: up_schedule_sigaction called in interrupt context for the
\* interrupted task with no handler pending only stores the handler (no
\* call, no synthetic frame); the return from the interrupt makes the task
\* enter up_sigdeliver; the stored handler stays in the slot, with no frame
\* pushed, until that entry takes it for its one call and nulls the slot.
C13_SelfInInterrupt ==
  [][\A t \in Tcbs :
       /\ (/\ nest_irq > 0 /\ t = current_task
           /\ sigdeliver[t] = NULL /\ sigdeliver'[t] # NULL) =>
             /\ last'.op = "sigaction"
             /\ last'.case = "self_irq"
             /\ last'.h = sigdeliver'[t]
             /\ ~last'.ran
             /\ ~last'.pushed
             /\ xcp_pushed' = xcp_pushed
             /\ tpc' = tpc
       /\ (/\ nest_irq = 1 /\ nest_irq' = 0 /\ t = current_task
           /\ sigdeliver[t] # NULL) =>
             /\ tpc'[t] = <<[pc |-> "sigdeliver"]>> \o tpc[t]
             /\ sigdeliver'[t] = sigdeliver[t]
       /\ (/\ sigdeliver[t] # NULL /\ xcp_pushed[t] = 0
           /\ (sigdeliver'[t] # sigdeliver[t] \/ xcp_pushed'[t] # 0)) =>
             /\ t = current_task
             /\ nest_irq = 0
             /\ Head(tpc[t]).pc = "sigdeliver"
             /\ tpc'[t] = <<[pc |-> "handler", h |-> sigdeliver[t]]>>
                             \o Tail(tpc[t])
             /\ sigdeliver'[t] = NULL
             /\ xcp_pushed'[t] = 0
       /\ (/\ tpc[t] # <<>> /\ Head(tpc[t]).pc = "sigdeliver"
           /\ xcp_pushed[t] = 0
           /\ tpc'[t] # tpc[t] /\ Len(tpc'[t]) <= Len(tpc[t])) =>
             /\ sigdeliver[t] # NULL
             /\ SigFrames(t) = 1
    ]_vars

(***************************************************************************)
(* Properties of the tickless time source                                  *)
(***************************************************************************)
Total(ts) == ts.tv_sec * NS_PER_SEC + ts.tv_nsec
Within1(a, b) == a - b <= 1 /\ b - a <= 1
BodyStep(op) ==
  /\ TopCall.kind = "call" /\ TopCall.op = op /\ TopCall.pc = "body"
  /\ tcall' # tcall

C15_CancelAfterDeadline ==
  [][(/\ ~tcfg.alarm /\ BodyStep("cancel") /\ TopCall.ts # NoTs
      /\ rdtsc(hw) >= tmr.g_goal_time)
     => Head(tcall').out = ZeroTs
    ]_vars

\* C16: once a cancel has returned, the expiration hook is not called until
\* start is called again.
C16_NoHookAfterCancel ==
  tlast.op = "hook" => ~tlast.cancelled

ExpireStep ==
  /\ TopCall.kind = "irq" /\ TopCall.pc = "expire"
  /\ tcall' # tcall

\* C17: when the interval timer's start leaves its sync region the timer is
\* active and unmasked and the programmed deadline equals the goal, which is
\* ts_to_ticks(ts) plus the counter read in the call, and this still holds
\* when start returns unless the timer has expired; unless a cancel or a
\* further start intervenes, the expiration hook is eventually called, not a
\* second time for the same start, and the timer is then inactive and masked.
C17_StartArmsAndFires ==
  /\ [][/\ (~tcfg.alarm /\ BodyStep("start")) =>
              /\ tmr'.g_timer_active = 1
              /\ ~hw'.masked
              /\ hw'.deadline = tmr'.g_goal_time
              /\ tmr'.g_goal_time = Uint64(up_ts2tick(TopCall.ts) + rdtsc(hw))
              /\ hw'.armed
        /\ (/\ ~tcfg.alarm /\ InCall({"ret"}) /\ TopCall.op = "start"
            /\ tcall' # tcall /\ tobs.phase = "started") =>
              /\ tmr.g_timer_active = 1
              /\ ~hw.masked
              /\ hw.deadline = tmr.g_goal_time
        /\ (~tcfg.alarm /\ ExpireStep) =>
              /\ tobs.phase # "fired"
              /\ tmr'.g_timer_active = 0
              /\ hw'.masked
     ]_vars
  /\ (~tcfg.alarm /\ tobs.phase = "started" /\ tmr.g_goal_time <= MaxTsc)
       ~> (tobs.phase # "started" \/ tmr.g_goal_time > MaxTsc)

\* C18: the sync-region depth is never negative, and a start or cancel
\* returns with the depth it was entered with.
C18_SyncBalanced ==
  /\ tmr.g_tmr_sync_count >= 0
  /\ (TopCall.kind = "call" /\ TopCall.pc = "ret") =>
        tmr.g_tmr_sync_count = TopCall.depth0

C18_Witness ==
  /\ TopCall.kind = "call"
  /\ TopCall.pc = "ret"
  /\ TopCall.depth0 = 1
  /\ tmr.g_tmr_sync_count = 1
  /\ Len(tcall) = 3

C20_WritesInSyncRegion ==
  tlast.op \in {"start", "cancel", "hook"} => tlast.depth > 0

\* C20, amended: every write to the timer state made by start or cancel is
\* made at a sync-region depth greater than 0.
C20_StartCancelInSyncRegion ==
  tlast.op \in {"start", "cancel"} => tlast.depth > 0

C20_Witness ==
  /\ tlast.op \in {"start", "cancel"}
  /\ tlast.depth = 2
  /\ TopCall.kind = "call"
  /\ TopCall.pc = "down_test"

\* The tick count of ts is below 2^64: the conversion does not wrap.
Fits(ts) == (ts.tv_sec + 1) * tcfg.tsc_freq < 2 ^ TscBits

\* q is s / d rounded half-up.
HalfUp(q, s, d) == 2 * q * d <= 2 * s + d /\ 2 * s + d < 2 * (q + 1) * d

Aligned(x, a) == x % a = 0

(***************************************************************************)
(* Properties of the stack manager                                         *)
(***************************************************************************)
HasStack == stk.stack_alloc_ptr # NULL

\* C22: whenever the TCB has a stack, adj_base is 8-byte aligned, adj_size
\* is a multiple of 4 and adj_size is at most the size of the buffer.
C22_StackAlignment ==
  HasStack =>
    /\ Aligned(stk.adj_stack_ptr, 8)
    /\ Aligned(stk.adj_stack_size, 4)
    /\ stk.adj_stack_size <= stk.bufsize

\* C23: a release returns every stack field to the null state; after a
\* create the release frees the created buffer once, and a release of a TCB
\* without a stack changes no field and frees nothing.
C23_CreateRelease ==
  klast.op = "release" =>
    /\ stk.stack_alloc_ptr = NULL
    /\ stk.adj_stack_ptr = NULL
    /\ stk.adj_stack_size = 0
    /\ (klast.prev = "create" /\ klast.before.stack_alloc_ptr # NULL) =>
          /\ klast.frees = 1
          /\ mm.freed[Len(mm.freed)].addr = klast.before.stack_alloc_ptr
          /\ klast.before.stack_alloc_ptr \notin LiveAddrs
    /\ klast.before.stack_alloc_ptr = NULL =>
          /\ klast.frees = 0
          /\ klast.before.adj_stack_ptr = NULL
          /\ klast.before.adj_stack_size = 0

C23_Witness ==
  /\ klast.op = "release"
  /\ klast.prev = "release"
  /\ klast.frees = 0
  /\ Len(mm.freed) = 1
  /\ mm.freed[1].id # 0
  /\ stk = NullStack

\* C24: every buffer passed to an allocator's free was obtained by create,
\* had not been freed before, and is freed by the allocator that handed it
\* out; a buffer installed by adopt is never freed.
C24_StackOwnership ==
  \A i \in DOMAIN mm.freed :
     /\ mm.freed[i].id # 0
     /\ mm.freed[i].heap = mm.freed[i].from
     /\ mm.freed[i].addr \notin CallerBufs

\* An unblock of the TCB that the preceding call blocked, both at task level.
\* Before the pair the TCB was on the ready-to-run list and not blocked; the
\* tasks of a pending list the block merged were not on the ready-to-run
\* list before it.
RoundTrip == last.op = "block" /\ last'.op = "unblock" /\ last'.pair

Restored ==
  /\ ReadyRange(task_state'[last.tcb])
  /\ ~last.merged
  /\ SeqSet(g_readytorun') = SeqSet(g_readytorun) \cup {last.tcb}
  /\ g_blocked' = g_blocked \ {last.tcb}
  /\ current_task' = Head(g_readytorun')

\* C25 (as stated): block(tcb, S) followed by unblock(tcb), both outside
\* interrupt context, puts the TCB back in a ready-to-run state, leaves the
\* membership of the ready-to-run and blocked lists as before the pair, and
\* leaves current_task at the head of the ready-to-run list.
C25_BlockUnblock == [][RoundTrip => Restored]_vars

\* sched_addreadytorun holds the TCB back on the pending list.
Deferred(tcb) ==
  /\ lockcount[Head(g_readytorun)] > 0
  /\ sched_priority[Head(g_readytorun)] < sched_priority[tcb]

\* C25 (amended): the round trip restores the state range, the membership
\* of both lists and current_task whenever the block merged no pending
\* tasks and the unblock is not deferred to the pending list.
C25_BlockUnblockNoPending ==
  [][RoundTrip /\ ~last.merged /\ ~Deferred(last.tcb) => Restored]_vars

\* A task was blocked and unblocked again and preempted its successor.
C25_Witness ==
  /\ last.op = "unblock" /\ last.pair /\ last.sw.swapped
  /\ current_task = last.tcb
  /\ InSeq(last.tcb, g_readytorun) /\ last.tcb \notin g_blocked

\* A second reprioritize of the same TCB to the same priority, right after
\* the first.
Twice ==
  /\ last.op = "reprioritize" /\ last'.op = "reprioritize" /\ last'.pair
  /\ ReprioritizeCall(last.tcb, last.arg)

\* After the first call the TCB is on the ready-to-run list once, with the
\* new priority.
OneReinsert ==
  /\ Cardinality({i \in 1..Len(g_readytorun) :
                     g_readytorun[i] = last.tcb}) = 1
  /\ sched_priority[last.tcb] = last.arg

NoOp ==
  /\ g_readytorun' = g_readytorun
  /\ sched_priority' = sched_priority
  /\ current_task' = current_task
  /\ ~last'.sw.swapped

C30_CurrentIsHead ==
  ~panicked => /\ current_task # NULL
               /\ g_readytorun # <<>>
               /\ current_task = Head(g_readytorun)

\* After the running task exited, another user task runs as the new head.
C30_Witness ==
  /\ last.op = "exit" /\ last.sw.swapped /\ ~panicked
  /\ current_task # IdleTcb
  /\ current_task = Head(g_readytorun)

\* The interrupt flag a start or cancel is called with: a call made by the
\* expiration hook runs with interrupts disabled, a task with them enabled.
EntryIf == Len(tcall) = 1

SyncEnter ==
  /\ tmr.g_tmr_sync_count = 0
  /\ tmr'.g_tmr_flags = EntryIf /\ ~hw'.iflag

SyncInc ==
  /\ tmr'.g_tmr_sync_count = tmr.g_tmr_sync_count + 1
  /\ tmr'.g_tmr_flags = tmr.g_tmr_flags /\ hw' = hw
  /\ tmr.g_tmr_sync_count = 0 => ~hw.iflag /\ tmr.g_tmr_flags = EntryIf

SyncLeave ==
  IF tmr.g_tmr_sync_count = 1
  THEN TopCall.depth0 = 0 /\ hw'.iflag = EntryIf
  ELSE hw' = hw

SyncDec ==
  /\ tmr'.g_tmr_sync_count = tmr.g_tmr_sync_count - 1
  /\ hw' = hw
  /\ tmr.g_tmr_sync_count = 1 => TopCall.depth0 = 0 /\ hw.iflag = EntryIf

\* C27: whatever handler operations run between the steps of a task-level
\* operation, only a sync_up at depth 0 saves the interrupt flag and enters
\* the critical section, every other sync_up only increments the depth, and
\* only the sync_down that takes the depth from 1 to 0 leaves the critical
\* section, restoring the flag its own operation was called with.
C27_SyncNesting ==
  [][/\ (TmrSyncUp /\ TopCall.pc = "sync_enter") => SyncEnter
     /\ (TmrSyncUp /\ TopCall.pc = "sync_inc") => SyncInc
     /\ (TmrSyncDown /\ TopCall.pc = "down_test") => SyncLeave
     /\ (TmrSyncDown /\ TopCall.pc = "down_dec") => SyncDec]_vars

\* The hook's operation runs at depth 2 inside a task's operation that has
\* left the critical section and not yet decremented the depth.
C27_Witness ==
  /\ Len(tcall) = 3
  /\ tcall[1].kind = "call" /\ tcall[1].pc = "body" /\ tcall[1].depth0 = 1
  /\ tcall[3].kind = "call" /\ tcall[3].pc = "down_dec"
  /\ tmr.g_tmr_sync_count = 2

\* up_sigdeliver up to local_irq_enable: entered with interrupts disabled,
\* it pops the frame, copies the slot to its local and nulls the slot.
DeliverEntered ==
  LET t == current_task IN
  /\ ~IrqsEnabled
  /\ xcp_pushed' = pop_xcptcontext(t)
  /\ Head(tpc'[t]) = [pc |-> "handler", h |-> sigdeliver[t]]
  /\ sigdeliver'[t] = NULL
  /\ IrqsEnabled'

\* The handler call: the handler is the local copy, the slot is NULL, and
\* what remains is local_irq_disable and the return.
DeliverCalled ==
  LET t == current_task IN
  /\ IrqsEnabled
  /\ sigdeliver[t] = NULL
  /\ last'.h = Head(tpc[t]).h /\ last'.pending = NULL
  /\ Head(tpc'[t]) = [pc |-> "sigreturn"]

\* C28: up_sigdeliver pops the synthetic frame, copies the pending handler
\* and nulls the slot before it enables interrupts, then calls the copied
\* handler with the slot NULL, then disables interrupts and returns.
C28_DeliverOrder ==
  [][/\ DeliverEntry => DeliverEntered
     /\ DeliverCall => DeliverCalled
     /\ DeliverReturn => tpc'[current_task] = Tail(tpc[current_task])]_vars

\* The task was signalled again by an interrupt during a delivery: the
\* handler of the nested delivery has been called with the slot NULL.
C28_Witness ==
  /\ last.op = "handler" /\ last.pending = NULL /\ last.h # NULL
  /\ Len(tpc[last.tcb]) > 1
  /\ tpc[last.tcb][1].pc = "sigreturn"
  /\ tpc[last.tcb][2].pc \in {"handler", "sigreturn"}

\* The deadline the last start programmed.
NewDeadline ==
  IF tcfg.alarm
  THEN Uint64(up_ts2tick(tmr.g_goal_time_ts) + tmr.g_start_tsc)
  ELSE tmr.g_goal_time

\* C29: in both variants the expiration handler calls the hook with the
\* timer masked and inactive and changes nothing after the hook returns, so
\* a timer started by the hook is active, unmasked and programmed with the
\* new deadline when the handler returns.
C29_HookMayRestart ==
  [][/\ TmrExpire => hw'.masked /\ tmr'.g_timer_active = 0
     /\ TmrIret => tmr' = tmr /\ hw' = [hw EXCEPT !.iflag = TRUE]
     /\ (TmrIret /\ tobs.phase = "started") =>
           /\ tmr'.g_timer_active = 1
           /\ ~hw'.masked
           /\ hw'.deadline = NewDeadline
           /\ hw'.armed \/ hw'.irr]_vars

\* The handler has returned after a start made by the hook.
C29_Witness ==
  /\ tcall = <<>> /\ hw.iflag
  /\ tlast.op = "return" /\ ~tlast.iflag
  /\ tobs.phase = "started"
  /\ tmr.g_timer_active = 1 /\ ~hw.masked /\ hw.armed

\* C31: every pop of the synthetic frame made by up_sigdeliver for a task
\* finds exactly one frame pushed on that task and not yet popped, whichever
\* case of up_schedule_sigaction stored the handler.
C31_PushPopBalanced ==
  last.op = "deliver" => last.pushed0 = 1

\* C32: for every tick count and every frequency above 0, up_tick2ts gives
\* a normalized timespec: tv_nsec is at least 0 and below NS_PER_SEC.
C32_Normalized ==
  tlast.op = "tick2ts" =>
     /\ tlast.ts.tv_nsec >= 0
     /\ tlast.ts.tv_nsec < NS_PER_SEC

=============================================================================
